---- MODULE Spec2Model ----
(***************************************************************************)
(* Model of src-tauri/src/lib.rs of image_optimizer: the dimension         *)
(* calculator (calculate_new_dimensions), the single-item pipeline         *)
(* (process_single_image), the asynchronous batch coordinator              *)
(* (process_images) and the synchronous batch commands (resize_images,     *)
(* optimize_images, quantize_images).                                      *)
(***************************************************************************)
EXTENDS Integers, Sequences, FiniteSets, TLC

None == <<>>

Some(x) == <<x>>

\* F applied to the value of v, with v evaluated once
Bind(v, F(_)) == CHOOSE r \in {F(s) : s \in {v}} : TRUE

(***************************************************************************)
(* IEEE-754 binary64 arithmetic on positive values, as far as              *)
(* calculate_new_dimensions uses it: `a as f64 / b as f64`, `c as f64 * q` *)
(* and f64::round.  A positive double is [bits, exp]: 53 significand bits, *)
(* most significant first and leading bit 1, with value                    *)
(* (bits[1].bits[2]...bits[53])_2 * 2^exp.  The integers converted by      *)
(* `as f64` are far below 2^53, so the conversions are exact.  Zero,       *)
(* +infinity and NaN appear when a dimension is 0 (0 as f64, w / 0, 0 / 0) *)
(* and have their own records, ordered by exp like the finite values.      *)
(***************************************************************************)
MantBits == 53

\* 0.0
F64Zero == [bits |-> [i \in 1..MantBits |-> 0], exp |-> -1075]

\* f64::INFINITY
F64Infinity == [bits |-> [i \in 1..MantBits |-> 1], exp |-> 1024]

\* f64::NAN
F64NaN == [bits |-> <<>>, exp |-> 1025]

Sq(v) == v * v

RECURSIVE Pow2Mod(_, _)
\* 2^i modulo m, by repeated squaring
Pow2Mod(i, m) ==
    IF i = 0 THEN 1 % m
    ELSE ((1 + (i % 2)) * Sq(Pow2Mod(i \div 2, m))) % m

\* the first n binary digits of a/b (1 <= a/b < 2), and twice the remainder
\* left after them, so that a/b = 0.bits + (rem / 2b) * 2^-(n-1)
LongDiv(a, b, n) ==
    [bits |-> SubSeq([i \in 1..n |-> ((a * Pow2Mod(i - 1, 2 * b)) % (2 * b)) \div b], 1, n),
     rem  |-> 2 * ((a * Pow2Mod(n - 1, b)) % b)]

RECURSIVE Normalize(_, _, _)
\* scales a/b into [1,2): a/b = (a'/b') * 2^exp
Normalize(a, b, e) ==
    IF a >= 2 * b THEN Normalize(a, 2 * b, e + 1)
    ELSE IF a < b THEN Normalize(2 * a, b, e - 1)
    ELSE [a |-> a, b |-> b, exp |-> e]

\* adds one unit in the last place; a carry out of the top gives one more bit
IncBits(bits) ==
    LET n     == Len(bits)
        zeros == {i \in 1..n : bits[i] = 0}
    IN  IF zeros = {} THEN <<1>> \o SubSeq([i \in 1..n |-> 0], 1, n)
        ELSE LET k == CHOOSE i \in zeros : \A j \in zeros : j <= i
             IN  SubSeq([i \in 1..n |-> IF i < k THEN bits[i] ELSE IF i = k THEN 1 ELSE 0], 1, n)

\* round to nearest, ties to even: kept bits, whether the discarded part is
\* above / exactly at half a unit in the last place
RoundNearestEven(bits, e, above, tie) ==
    IF ~(above \/ (tie /\ bits[Len(bits)] = 1))
    THEN [bits |-> bits, exp |-> e]
    ELSE Bind(IncBits(bits), LAMBDA inc :
           IF Len(inc) > Len(bits)
           THEN [bits |-> SubSeq(inc, 1, Len(bits)), exp |-> e + 1]
           ELSE [bits |-> inc, exp |-> e])

\* the ratio inverted: b as f64 / a as f64
F64DivSwapped(a, b) ==
    IF a = 0 THEN (IF b = 0 THEN F64NaN ELSE F64Infinity)
    ELSE IF b = 0 THEN F64Zero
    ELSE Bind(Normalize(b, a, 0), LAMBDA n :
           Bind(LongDiv(n.a, n.b, MantBits), LAMBDA d :
             RoundNearestEven(d.bits, n.exp, d.rem > n.b, d.rem = n.b)))

\* a as f64 / b as f64, for integers a, b >= 0
F64Div(a, b) ==
    IF b = 0 THEN (IF a = 0 THEN F64NaN ELSE F64Infinity)
    ELSE IF a = 0 THEN F64Zero
    ELSE Bind(Normalize(a, b, 0), LAMBDA n :
           Bind(LongDiv(n.a, n.b, MantBits), LAMBDA d :
             RoundNearestEven(d.bits, n.exp, d.rem > n.b, d.rem = n.b)))

RECURSIVE NatToBits(_)
NatToBits(v) == IF v = 0 THEN <<>> ELSE NatToBits(v \div 2) \o <<v % 2>>

\* the binary digits of bits * c, most significant (a 1) first; carry[j] is
\* the carry out of the j least significant bits
MulBits(bits, c) ==
    LET n == Len(bits)
        carry[j \in 0..n] ==
            IF j = 0 THEN 0 ELSE (bits[n - j + 1] * c + carry[j - 1]) \div 2
    IN  Bind(SubSeq([j \in 1..(n + 1) |-> carry[j - 1]], 1, n + 1), LAMBDA cs :
          NatToBits(cs[n + 1])
            \o SubSeq([i \in 1..n |-> (bits[i] * c + cs[n - i + 1]) % 2], 1, n))

\* c as f64 * x, for an integer c >= 0 and a double x >= 0
F64MulInt(c, x) ==
    Bind(x, LAMBDA xv :
      IF xv = F64NaN THEN F64NaN
      ELSE IF xv = F64Infinity THEN (IF c = 0 THEN F64NaN ELSE F64Infinity)
      ELSE IF c = 0 \/ xv = F64Zero THEN F64Zero
      ELSE Bind(MulBits(xv.bits, c), LAMBDA p :
        LET extra == Len(p) - MantBits
            half  == extra > 0 /\ p[MantBits + 1] = 1
            low   == \E i \in 2..extra : p[MantBits + i] = 1
        IN  Bind(SubSeq(p, 1, MantBits), LAMBDA kept :
              RoundNearestEven(kept, xv.exp + extra, half /\ low, half /\ ~low))))

RECURSIVE BitsToNat(_)
BitsToNat(bits) ==
    IF bits = <<>> THEN 0
    ELSE 2 * BitsToNat(SubSeq(bits, 1, Len(bits) - 1)) + bits[Len(bits)]

\* truncation instead of f64::round
F64TruncU32(x) ==
    Bind(x, LAMBDA xv :
      IF xv.exp < 0 THEN 0
      ELSE IF xv.exp >= MantBits - 1 THEN BitsToNat(xv.bits)
      ELSE BitsToNat(SubSeq(xv.bits, 1, xv.exp + 1)))

\* f64::round (half away from zero) followed by `as u32`, for a double
\* x >= 0 below 2^31; zero and NaN give 0
F64RoundU32(x) ==
    Bind(x, LAMBDA xv :
      IF xv.exp < -1 THEN 0
      ELSE IF xv.exp = -1 THEN 1
      ELSE IF xv.exp >= MantBits - 1 THEN BitsToNat(xv.bits)
      ELSE BitsToNat(SubSeq(xv.bits, 1, xv.exp + 1)) + xv.bits[xv.exp + 2])

\* x < y for two doubles that are not NaN
F64Less(x, y) ==
    \/ x.exp < y.exp
    \/ /\ x.exp = y.exp
       /\ \E i \in 1..MantBits :
            /\ x.bits[i] < y.bits[i]
            /\ \A j \in 1..(i - 1) : x.bits[j] = y.bits[j]

\* the larger of the two ratios
F64Max(a, b) ==
    Bind(a, LAMBDA av : Bind(b, LAMBDA bv :
      IF av = F64NaN THEN bv
      ELSE IF bv = F64NaN THEN av
      ELSE IF F64Less(av, bv) THEN bv ELSE av))

\* f64::min: the smaller of the two, the other one when one is NaN
F64Min(a, b) ==
    Bind(a, LAMBDA av : Bind(b, LAMBDA bv :
      IF av = F64NaN THEN bv
      ELSE IF bv = F64NaN THEN av
      ELSE IF F64Less(bv, av) THEN bv ELSE av))

(***************************************************************************)
(* calculate_new_dimensions                                                *)
(***************************************************************************)
calculate_new_dimensions(orig_w, orig_h, target_w, target_h, maintain_aspect) ==
    IF target_w # None /\ target_h # None /\ ~maintain_aspect
    THEN <<target_w[1], target_h[1]>>
    ELSE IF target_w # None /\ target_h # None
    THEN LET ratio_w == F64Div(target_w[1], orig_w)
             ratio_h == F64Div(target_h[1], orig_h)
         IN  Bind(F64Min(ratio_w, ratio_h), LAMBDA ratio :
               << F64RoundU32(F64MulInt(orig_w, ratio)),
                  F64RoundU32(F64MulInt(orig_h, ratio)) >>)
    ELSE IF target_w # None
    THEN LET ratio == F64Div(target_w[1], orig_w)
         IN  << target_w[1], F64RoundU32(F64MulInt(orig_h, ratio)) >>
    ELSE IF target_h # None
    THEN LET ratio == F64Div(target_h[1], orig_h)
         IN  << F64RoundU32(F64MulInt(orig_w, ratio)), target_h[1] >>
    ELSE <<orig_w, orig_h>>

(***************************************************************************)
(* Paths and the file system.  A path string is <<parent, stem, ext>>;     *)
(* String::new() is the empty sequence.  The files and their decoded sizes *)
(* are the environment of the program.                                     *)
(***************************************************************************)
EmptyString == <<>>

PathA == <<"in", "a", "png">>

PathB == <<"in", "b", "jpg">>

PathC == <<"alt", "a", "png">>

PathGone == <<"in", "gone", "png">>

PathBad == <<"in", "bad", "png">>

Paths == {PathA, PathB, PathC, PathGone, PathBad}

\* the file system before any command runs
InitFs ==
    [files |-> {PathA, PathB, PathC, PathBad}, dirs |-> {"in", "alt"}, written |-> {}]

\* byte length of a source file (fs::metadata(..).len())
FileLen(p) == IF p = PathA THEN 9 ELSE IF p = PathB THEN 5 ELSE 7

\* pixel dimensions of a decoded source file (img.dimensions())
FileDims(p) == IF p = PathA THEN <<4, 3>> ELSE IF p = PathB THEN <<3, 1>> ELSE <<2, 2>>

\* whether the bytes of a source file are an image image::open can decode
Decodable(p) == p # PathBad

path_exists(fs, p) == p \in fs.files

dir_exists(fs, d) == d \in fs.dirs

\* fs::metadata(&path).map(|m| m.len()).unwrap_or(0)
metadata_len(fs, p) == IF p \in fs.files THEN FileLen(p) ELSE 0

\* path.file_stem().and_then(|s| s.to_str()).unwrap_or("output")
file_stem(p) == IF p[2] = "" THEN "output" ELSE p[2]

\* path.parent().unwrap_or(Path::new("."))
path_parent(p) == IF p[1] = "" THEN "." ELSE p[1]

\* a file name that does not depend on the stem
OutputPathFixedName(output_parent, stem, extension) ==
    <<output_parent, "output" \o "_processed", extension>>

\* output_parent.join(format!("{}_processed.{}", stem, extension))
OutputPath(output_parent, stem, extension) ==
    <<output_parent, stem \o "_processed", extension>>

(***************************************************************************)
(* process_single_image.  `fails` is the set of external calls that return *)
(* Err in this run.  The pipeline state st carries the locals of the       *)
(* function; st.returned is set by a `return`, after which no later stage  *)
(* acts; st.ran lists the external calls made, in order.                   *)
(***************************************************************************)
Calls ==
    {"create_dir_all", "open", "set_quality", "new_image", "quantize",
     "remapped", "encode", "write_to", "optimize_from_memory", "write"}

ProcessResult(success, original_size, result_size, output_path, message) ==
    [success |-> success, original_size |-> original_size,
     result_size |-> result_size, output_path |-> output_path,
     message |-> message]

\* the failure results built at every early return
FailResult(original_size, message) ==
    ProcessResult(FALSE, original_size, 0, EmptyString, message)

Return(st, result) == [st EXCEPT !.returned = TRUE, !.result = result]

Ran(st, call) == [st EXCEPT !.ran = Append(@, call)]

\* a subtraction in the u8 field that wraps around below 10
MinQualityWrapping(quality) == (quality - 10) % 256

\* (options.quality as u32).saturating_sub(10).max(0) as u8
MinQuality(quality) ==
    LET sub == IF quality >= 10 THEN quality - 10 ELSE 0
        mx  == IF sub >= 0 THEN sub ELSE 0
    IN  mx % 256

\* options.quality as u32 as u8
MaxQuality(quality) == quality % 256

\* length of an encoded byte stream: the codecs are external, any positive
\* length stands for final_data.len()
EncodedLen(data) ==
    (IF data.format = "webp" THEN 3 ELSE 4)
      + (IF data.palette THEN 0 ELSE 2) - (IF data.optimized THEN 1 ELSE 0)

StartState(path_str, fs) ==
    [returned |-> FALSE, result |-> FailResult(0, EmptyString), fs |-> fs,
     ran |-> <<>>, path |-> path_str, original_size |-> 0, stem |-> "",
     output_parent |-> "", dims |-> <<0, 0>>, process_steps |-> <<>>,
     band |-> <<>>, data |-> [format |-> "", palette |-> FALSE,
                              optimized |-> FALSE, lossless |-> FALSE,
                              dims |-> <<0, 0>>],
     extension |-> ""]

\* lines 601-615: existence check, original_size, stem
ExistenceStage(st, options, fails) ==
    IF ~path_exists(st.fs, st.path)
    THEN Return(Ran(st, "exists"), FailResult(0, <<"not_found", st.path>>))
    ELSE [Ran(Ran(st, "exists"), "metadata") EXCEPT
            !.original_size = metadata_len(st.fs, st.path),
            !.stem = file_stem(st.path)]

\* the output directory stage without the return of the existence check
OutputDirStageNoReturn(st, options, fails) ==
    IF options.output_dir # None
    THEN LET out_path == options.output_dir[1]
         IN  IF ~dir_exists(st.fs, out_path)
             THEN IF "create_dir_all" \in fails
                  THEN Return(Ran(st, "create_dir_all"),
                              FailResult(st.original_size, <<"mkdir_error">>))
                  ELSE [Ran(st, "create_dir_all") EXCEPT
                          !.fs.dirs = @ \cup {out_path},
                          !.output_parent = out_path]
             ELSE [st EXCEPT !.output_parent = out_path]
    ELSE [st EXCEPT !.output_parent = path_parent(st.path)]

\* lines 617-637: output directory
OutputDirStage(st, options, fails) ==
    IF st.returned THEN st
    ELSE IF options.output_dir # None
    THEN LET out_path == options.output_dir[1]
         IN  IF ~dir_exists(st.fs, out_path)
             THEN IF "create_dir_all" \in fails
                  THEN Return(Ran(st, "create_dir_all"),
                              FailResult(st.original_size, <<"mkdir_error">>))
                  ELSE [Ran(st, "create_dir_all") EXCEPT
                          !.fs.dirs = @ \cup {out_path},
                          !.output_parent = out_path]
             ELSE [st EXCEPT !.output_parent = out_path]
    ELSE [st EXCEPT !.output_parent = path_parent(st.path)]

\* lines 639-654: decode
DecodeStage(st, options, fails) ==
    IF st.returned THEN st
    ELSE IF "open" \in fails \/ ~Decodable(st.path)
    THEN Return(Ran(st, "open"),
                FailResult(st.original_size, <<"open_error", st.path>>))
    ELSE [Ran(st, "open") EXCEPT !.dims = FileDims(st.path)]

\* lines 656-670: resize
ResizeStage(st, options, fails) ==
    IF st.returned THEN st
    ELSE IF options.resize_enabled /\ (options.width # None \/ options.height # None)
    THEN LET new == calculate_new_dimensions(st.dims[1], st.dims[2],
                        options.width, options.height,
                        options.maintain_aspect_ratio)
         IN  Bind(new, LAMBDA nd :
               [Ran(st, "resize_exact") EXCEPT
                  !.dims = nd,
                  !.process_steps = Append(@, <<"resize", st.dims, nd>>)])
    ELSE st

\* lines 676-776: pngquant
QuantizeStage(st, options, fails) ==
    LET min_quality == MinQuality(options.quality)
        max_quality == MaxQuality(options.quality)
        s1 == [Ran(st, "set_quality") EXCEPT !.band = <<min_quality, max_quality>>]
        s2 == Ran(s1, "new_image")
        s3 == Ran(s2, "quantize")
        s4 == Ran(s3, "remapped")
        s5 == Ran(s4, "encode")
    IN  IF "set_quality" \in fails
        THEN Return(s1, FailResult(st.original_size, <<"quality_error">>))
        ELSE IF "new_image" \in fails
        THEN Return(s2, FailResult(st.original_size, <<"imagequant_error">>))
        ELSE IF "quantize" \in fails
        THEN Return(s3, FailResult(st.original_size, <<"quantize_error">>))
        ELSE IF "remapped" \in fails
        THEN Return(s4, FailResult(st.original_size, <<"remap_error">>))
        ELSE IF "encode" \in fails
        THEN Return(s5, FailResult(st.original_size, <<"png_encode_error">>))
        ELSE [s5 EXCEPT
                !.process_steps = Append(@, <<"pngquant", options.quality>>),
                !.data = [format |-> "png", palette |-> TRUE,
                          optimized |-> FALSE, lossless |-> TRUE,
                          dims |-> st.dims]]

\* lines 777-790: plain PNG encoding when pngquant is skipped
PlainPngStage(st, options, fails) ==
    IF "write_to" \in fails
    THEN Return(Ran(st, "write_to"),
                FailResult(st.original_size, <<"png_convert_error">>))
    ELSE [Ran(st, "write_to") EXCEPT
            !.data = [format |-> "png", palette |-> FALSE,
                      optimized |-> FALSE, lossless |-> TRUE,
                      dims |-> st.dims]]

\* oxipng run on whatever the PNG branch left, returned or not
OptimizeStageNoReturn(st, options, fails) ==
    IF options.optimize_enabled
    THEN IF "optimize_from_memory" \in fails
         THEN Return(Ran(st, "optimize_from_memory"),
                     FailResult(st.original_size, <<"oxipng_error">>))
         ELSE [Ran(st, "optimize_from_memory") EXCEPT
                 !.process_steps = Append(@, <<"oxipng">>),
                 !.data.optimized = TRUE]
    ELSE st

\* lines 792-817: oxipng
OptimizeStage(st, options, fails) ==
    IF st.returned THEN st
    ELSE IF options.optimize_enabled
    THEN IF "optimize_from_memory" \in fails
         THEN Return(Ran(st, "optimize_from_memory"),
                     FailResult(st.original_size, <<"oxipng_error">>))
         ELSE [Ran(st, "optimize_from_memory") EXCEPT
                 !.process_steps = Append(@, <<"oxipng">>),
                 !.data.optimized = TRUE]
    ELSE st

\* lossless only for quality = 100
WebpStageExact100(st, options, fails) ==
    IF options.quality = 100
    THEN [Ran(st, "encode_lossless") EXCEPT
            !.process_steps = Append(@, <<"webp_lossless">>),
            !.data = [format |-> "webp", palette |-> FALSE,
                      optimized |-> FALSE, lossless |-> TRUE,
                      dims |-> st.dims],
            !.extension = "webp"]
    ELSE [Ran(st, "encode_lossy") EXCEPT
            !.process_steps = Append(@, <<"webp_quality", options.quality>>),
            !.data = [format |-> "webp", palette |-> FALSE,
                      optimized |-> FALSE, lossless |-> FALSE,
                      dims |-> st.dims],
            !.extension = "webp"]

\* lines 821-839: WebP
WebpStage(st, options, fails) ==
    IF options.quality >= 100
    THEN [Ran(st, "encode_lossless") EXCEPT
            !.process_steps = Append(@, <<"webp_lossless">>),
            !.data = [format |-> "webp", palette |-> FALSE,
                      optimized |-> FALSE, lossless |-> TRUE,
                      dims |-> st.dims],
            !.extension = "webp"]
    ELSE [Ran(st, "encode_lossy") EXCEPT
            !.process_steps = Append(@, <<"webp_quality", options.quality>>),
            !.data = [format |-> "webp", palette |-> FALSE,
                      optimized |-> FALSE, lossless |-> FALSE,
                      dims |-> st.dims],
            !.extension = "webp"]

\* lines 673-840: the match on options.output_format
FormatStage(st, options, fails) ==
    IF st.returned THEN st
    ELSE IF options.output_format = "png"
    THEN LET png == IF options.quantize_enabled
                    THEN QuantizeStage(st, options, fails)
                    ELSE PlainPngStage(st, options, fails)
             opt == OptimizeStage(png, options, fails)
         IN  IF opt.returned THEN opt ELSE [opt EXCEPT !.extension = "png"]
    ELSE WebpStage(st, options, fails)

\* lines 842-875: write and the success result
WriteStage(st, options, fails) ==
    IF st.returned THEN st
    ELSE LET output_path == OutputPath(st.output_parent, st.stem, st.extension)
         IN  IF "write" \in fails
             THEN Return(Ran(st, "write"),
                         FailResult(st.original_size, <<"write_error">>))
             ELSE LET result_size == EncodedLen(st.data)
                  IN  Return([Ran(st, "write") EXCEPT
                                !.fs.written = @ \cup {output_path}],
                             ProcessResult(TRUE, st.original_size, result_size,
                                 output_path,
                                 <<"ok", st.process_steps, st.original_size,
                                   result_size>>))

process_single_image(path_str, options, fs, fails) ==
    LET s1 == Bind(StartState(path_str, fs),
                   LAMBDA s : ExistenceStage(s, options, fails))
        s2 == Bind(s1, LAMBDA s : OutputDirStage(s, options, fails))
        s3 == Bind(s2, LAMBDA s : DecodeStage(s, options, fails))
        s4 == Bind(s3, LAMBDA s : ResizeStage(s, options, fails))
        s5 == Bind(s4, LAMBDA s : FormatStage(s, options, fails))
    IN  Bind(s5, LAMBDA s : WriteStage(s, options, fails))

(***************************************************************************)
(* Bounds and input sets                                                   *)
(***************************************************************************)
MaxItems == 2

MaxDim == 4

\* dimensions at which the exact scaled value is a tie k + 1/2
TieDims == {11, 15, 22}

DimValues == (1..MaxDim) \cup TieDims

OptDims == {None} \cup {Some(d) : d \in DimValues}

QualityValues == {0, 5, 10, 50, 99, 100, 255}

\* the calls that fail in one run of process_single_image: none or one
FailSets == {{}} \cup {{c} : c \in Calls}

ProcessOptions(resize_enabled, width, height, maintain_aspect_ratio, quantize_enabled, quality, optimize_enabled, output_dir, output_format) ==
    [resize_enabled |-> resize_enabled, width |-> width, height |-> height,
     maintain_aspect_ratio |-> maintain_aspect_ratio,
     quantize_enabled |-> quantize_enabled, quality |-> quality,
     optimize_enabled |-> optimize_enabled, output_dir |-> output_dir,
     output_format |-> output_format]

SingleOptions ==
    [resize_enabled : BOOLEAN, width : {None, Some(2)}, height : {None, Some(2)},
     maintain_aspect_ratio : BOOLEAN, quantize_enabled : BOOLEAN,
     quality : QualityValues, optimize_enabled : BOOLEAN,
     output_dir : {None, Some("in"), Some("out")},
     output_format : {"png", "webp"}]

SinglePaths == {PathA, PathGone, PathBad}

BatchOptions ==
    { ProcessOptions(TRUE, Some(2), None, TRUE, TRUE, 50, TRUE, Some("out"), "png"),
      ProcessOptions(FALSE, None, None, FALSE, FALSE, 100, FALSE, None, "webp") }

BatchPaths == {PathA, PathB, PathC, PathGone}

BatchFails == {{}, {"write"}}

RECURSIVE SeqsUpTo(_, _)
\* the sequences over S of length at most n
SeqsUpTo(S, n) ==
    IF n = 0 THEN {<<>>}
    ELSE LET shorter == SeqsUpTo(S, n - 1)
         IN  shorter \cup {Append(q, x) : q \in shorter, x \in S}

(***************************************************************************)
(* State                                                                   *)
(***************************************************************************)
VARIABLES
    paths,      \* process_images: the batch
    options,    \* process_images: the shared options
    total,      \* paths.len(), taken before the thread is spawned
    fs,         \* the file system
    mainpc,     \* the calling thread: "call", "spawned", "returned"
    ret,        \* the value process_images returned to its caller
    bgpc,       \* the background thread: "none", "par", "done", "panicked"
    wpc,        \* per item of the par_iter: "idle", "processed", "counted", "emitted"
    fails,      \* per item: the external calls that failed while processing it
    result,     \* per item: the ProcessResult of process_single_image
    current,    \* per item: `current`, the value of fetch_add + 1
    completed,  \* the AtomicUsize
    emitted,    \* the app.emit calls, in order
    sink,       \* the events the listener received, in order
    psi,        \* one call of process_single_image: its arguments and outcome
    dim,        \* one call of calculate_new_dimensions: its arguments and outcome
    cmd         \* one call of a synchronous batch command: arguments and progress

vars ==
    <<paths, options, total, fs, mainpc, ret, bgpc, wpc, fails, result,
      current, completed, emitted, sink, psi, dim, cmd>>

batchVars ==
    <<paths, options, total, fs, mainpc, ret, bgpc, wpc, fails, result,
      current, completed, emitted, sink>>

Items == 1..Len(paths)

NoResult == FailResult(0, EmptyString)

(***************************************************************************)
(* process_images                                                          *)
(***************************************************************************)
BatchIdle ==
    /\ total = 0
    /\ fs = InitFs
    /\ mainpc = "call"
    /\ ret = None
    /\ bgpc = "none"
    /\ wpc = [i \in Items |-> "idle"]
    /\ fails = [i \in Items |-> {}]
    /\ result = [i \in Items |-> NoResult]
    /\ current = [i \in Items |-> 0]
    /\ completed = 0
    /\ emitted = <<>>
    /\ sink = <<>>

Init ==
    /\ paths \in SeqsUpTo(BatchPaths, MaxItems)
    /\ options \in BatchOptions
    /\ BatchIdle
    /\ psi = None
    /\ dim = None
    /\ cmd = None

\* lines 885-917: total is taken and the background thread is spawned
ProcessImagesSpawn ==
    /\ mainpc = "call"
    /\ total' = Len(paths)
    /\ completed' = 0
    /\ bgpc' = "par"
    /\ mainpc' = "spawned"
    /\ UNCHANGED <<paths, options, fs, ret, wpc, fails, result, current,
                   emitted, sink, psi, dim, cmd>>

\* a return that joins the background thread first
ProcessImagesReturnJoin ==
    /\ mainpc = "spawned"
    /\ bgpc = "done"
    /\ ret' = Some([i \in Items |-> result[i]])
    /\ mainpc' = "returned"
    /\ UNCHANGED <<paths, options, total, fs, bgpc, wpc, fails, result,
                   current, completed, emitted, sink, psi, dim, cmd>>

\* line 920: Ok(vec![])
ProcessImagesReturn ==
    /\ mainpc = "spawned"
    /\ ret' = Some(<<>>)
    /\ mainpc' = "returned"
    /\ UNCHANGED <<paths, options, total, fs, bgpc, wpc, fails, result,
                   current, completed, emitted, sink, psi, dim, cmd>>

\* line 895: let result = process_single_image(path_str, &options)
ProcessItem(i) ==
    /\ bgpc = "par"
    /\ wpc[i] = "idle"
    /\ \E f \in BatchFails :
         \E st \in {process_single_image(paths[i], options, fs, f)} :
             /\ result' = [result EXCEPT ![i] = st.result]
             /\ fails' = [fails EXCEPT ![i] = f]
             /\ fs' = st.fs
    /\ wpc' = [wpc EXCEPT ![i] = "processed"]
    /\ UNCHANGED <<paths, options, total, mainpc, ret, bgpc, current,
                   completed, emitted, sink, psi, dim, cmd>>

\* fetch_add's return value used as it is
CurrentCountOld(old) == old

\* line 898: the value of `current` for the old counter value
CurrentCount(old) == old + 1

\* line 898: completed.fetch_add(1, Ordering::SeqCst) + 1
FetchAdd(i) ==
    /\ bgpc = "par"
    /\ wpc[i] = "processed"
    /\ completed' = completed + 1
    /\ current' = [current EXCEPT ![i] = CurrentCount(completed)]
    /\ wpc' = [wpc EXCEPT ![i] = "counted"]
    /\ UNCHANGED <<paths, options, total, fs, mainpc, ret, bgpc, fails,
                   result, emitted, sink, psi, dim, cmd>>

\* a payload that names the first file of the batch
ProgressPayloadFirstFile(i) ==
    [event |-> "process-progress", completed |-> current[i], total |-> total,
     current_file |-> Some(paths[1]), result |-> Some(result[i])]

\* lines 903-908: the payload of the item's progress event
ProgressPayload(i) ==
    [event |-> "process-progress", completed |-> current[i], total |-> total,
     current_file |-> Some(paths[i]), result |-> Some(result[i])]

\* line 916: the terminal event, with the unit payload
CompletePayload ==
    [event |-> "process-complete", completed |-> 0, total |-> 0,
     current_file |-> None, result |-> None]

\* app.emit(..).unwrap(): a failed send panics the worker
AfterEmitUnwrap(ok) == IF ok THEN "emitted" ELSE "panicked"

\* `let _ = app.emit(..)`: the worker goes on whatever emit returned
AfterEmit(ok) == "emitted"

\* lines 901-909: app.emit("process-progress", ..); the send may fail
EmitProgress(i) ==
    /\ bgpc = "par"
    /\ wpc[i] = "counted"
    /\ \E ok \in BOOLEAN :
         /\ emitted' = Append(emitted, ProgressPayload(i))
         /\ sink' = IF ok THEN Append(sink, ProgressPayload(i)) ELSE sink
         /\ wpc' = [wpc EXCEPT ![i] = AfterEmit(ok)]
    /\ UNCHANGED <<paths, options, total, fs, mainpc, ret, bgpc, fails,
                   result, current, completed, psi, dim, cmd>>

\* no barrier between the parallel iterator and the terminal event
CollectedNoBarrier == TRUE

\* line 913: collect() returns when the closure has returned for every item
Collected == \A i \in Items : wpc[i] = "emitted"

\* line 916: app.emit("process-complete", ()), then the thread ends
EmitComplete ==
    /\ bgpc = "par"
    /\ Collected
    /\ \E ok \in BOOLEAN :
         /\ emitted' = Append(emitted, CompletePayload)
         /\ sink' = IF ok THEN Append(sink, CompletePayload) ELSE sink
    /\ bgpc' = "done"
    /\ UNCHANGED <<paths, options, total, fs, mainpc, ret, wpc, fails,
                   result, current, completed, psi, dim, cmd>>

Next ==
    \/ ProcessImagesSpawn
    \/ ProcessImagesReturn
    \/ \E i \in Items : ProcessItem(i)
    \/ \E i \in Items : FetchAdd(i)
    \/ \E i \in Items : EmitProgress(i)
    \/ EmitComplete

Spec == Init /\ [][Next]_vars

\* the threads of the program are scheduled fairly
FairSpec == Spec /\ WF_vars(Next)

(***************************************************************************)
(* One call of process_single_image                                        *)
(***************************************************************************)
BatchUnused ==
    /\ paths = <<>>
    /\ options = None
    /\ BatchIdle

InitSingle ==
    /\ BatchUnused
    /\ dim = None
    /\ cmd = None
    /\ psi \in [path : SinglePaths, options : SingleOptions, fs : {InitFs},
                fails : {{}}, st : {None}]

CallProcessSingleImage ==
    /\ psi.st = None
    /\ \E f \in FailSets :
         psi' = [psi EXCEPT
                   !.fails = f,
                   !.st = Some(process_single_image(psi.path, psi.options, psi.fs, f))]
    /\ UNCHANGED <<batchVars, dim, cmd>>

NextSingle == CallProcessSingleImage

SpecSingle == InitSingle /\ [][NextSingle]_vars

(***************************************************************************)
(* One call of calculate_new_dimensions                                    *)
(***************************************************************************)
InitDim ==
    /\ BatchUnused
    /\ psi = None
    /\ cmd = None
    /\ dim \in [orig_w : DimValues, orig_h : DimValues, target_w : OptDims,
                target_h : OptDims, maintain_aspect : BOOLEAN, out : {None},
                again : {None}]

CallCalculateNewDimensions ==
    /\ dim.out = None
    /\ dim' = [dim EXCEPT !.out = Some(calculate_new_dimensions(
                   dim.orig_w, dim.orig_h, dim.target_w, dim.target_h,
                   dim.maintain_aspect))]
    /\ UNCHANGED <<batchVars, psi, cmd>>

\* the function applied to its own output, with the same targets and flag
ReapplyCalculateNewDimensions ==
    /\ dim.out # None
    /\ dim.again = None
    /\ dim' = [dim EXCEPT !.again = Some(calculate_new_dimensions(
                   dim.out[1][1], dim.out[1][2], dim.target_w, dim.target_h,
                   dim.maintain_aspect))]
    /\ UNCHANGED <<batchVars, psi, cmd>>

NextDim ==
    \/ CallCalculateNewDimensions
    \/ ReapplyCalculateNewDimensions

SpecDim == InitDim /\ [][NextDim]_vars

(***************************************************************************)
(* The synchronous batch commands resize_images, optimize_images and       *)
(* quantize_images.  Each is a `for path_str in &paths` loop that pushes   *)
(* ProcessResults to `results`; an iteration is modelled by the list of    *)
(* results it pushes, the file system it leaves and the quality band it    *)
(* passed to set_quality (None when set_quality was not called).           *)
(***************************************************************************)
ResizeOptions(width, height, maintain_aspect_ratio) ==
    [width |-> width, height |-> height,
     maintain_aspect_ratio |-> maintain_aspect_ratio]

QuantOptions(quality) == [quality |-> quality]

Iteration(pushed, fs_after, band) ==
    [pushed |-> pushed, fs |-> fs_after, band |-> band]

\* path.extension() .. eq_ignore_ascii_case("png"), for the extensions of
\* the model's paths
is_png(p) == p[3] \in {"png", "PNG"}

\* parent.join(format!("{}_<suffix>.png", stem))
SuffixedPath(p, suffix) == <<path_parent(p), file_stem(p) \o suffix, "png">>

\* lines 309-385: one iteration of resize_images
resize_images_item(path_str, opts, fs_before, failing) ==
    IF ~path_exists(fs_before, path_str)
    THEN Iteration(<<FailResult(0, <<"not_found", path_str>>)>>, fs_before, None)
    ELSE IF "open" \in failing \/ ~Decodable(path_str)
    THEN Iteration(<<FailResult(0, <<"open_error", path_str>>)>>, fs_before, None)
    ELSE LET original_size == metadata_len(fs_before, path_str)
             orig == FileDims(path_str)
             output_path == SuffixedPath(path_str, "_resized")
         IN  Bind(calculate_new_dimensions(orig[1], orig[2], opts.width,
                      opts.height, opts.maintain_aspect_ratio), LAMBDA new :
               IF "save" \in failing
               THEN Iteration(<<FailResult(original_size, <<"save_error">>)>>,
                              fs_before, None)
               ELSE Iteration(
                      <<ProcessResult(TRUE, original_size,
                          EncodedLen([format |-> "png", palette |-> FALSE,
                                      optimized |-> FALSE]),
                          output_path, <<"resized", orig, new>>)>>,
                      [fs_before EXCEPT !.written = @ \cup {output_path}], None))

\* lines 214-299: one iteration of optimize_images
optimize_images_item(path_str, fs_before, failing) ==
    IF ~path_exists(fs_before, path_str)
    THEN Iteration(<<FailResult(0, <<"not_found", path_str>>)>>, fs_before, None)
    ELSE LET original_size == metadata_len(fs_before, path_str)
             output_path == SuffixedPath(path_str, "_optimized")
             converted == ~is_png(path_str)
             convert_err == \/ "open" \in failing \/ ~Decodable(path_str)
                            \/ "write_to" \in failing
             optimize_err ==
                 IF converted
                 THEN "optimize_from_memory" \in failing \/ "write" \in failing
                 ELSE "optimize" \in failing \/ ~Decodable(path_str)
             result_size == EncodedLen([format |-> "png", palette |-> FALSE,
                                        optimized |-> TRUE])
         IN  IF converted /\ convert_err
             THEN Iteration(<<FailResult(original_size, <<"convert_error", path_str>>)>>,
                            fs_before, None)
             ELSE IF optimize_err
             THEN Iteration(<<FailResult(original_size, <<"optimize_error", path_str>>)>>,
                            fs_before, None)
             ELSE Iteration(
                    <<ProcessResult(TRUE, original_size, result_size, output_path,
                        <<"optimized", original_size, result_size>>)>>,
                    [fs_before EXCEPT !.written = @ \cup {output_path}], None)

\* lines 510-541: the results pushed by the palette loop; a failing
\* palette_add pushes a failure and `continue`s with the next colour
PaletteLoop(palette_len, raw_fail, png_fail, original_size) ==
    LET pushed[k \in 0..palette_len] ==
            IF k = 0 THEN <<>>
            ELSE IF k \in raw_fail
            THEN Append(pushed[k - 1], FailResult(original_size, <<"palette_error">>))
            ELSE IF k \in png_fail
            THEN Append(pushed[k - 1], FailResult(original_size, <<"palette_error">>))
            ELSE pushed[k - 1]
    IN  pushed[palette_len]

\* lines 398-592: one iteration of quantize_images; palette_len is the
\* number of colours the quantizer returned, raw_fail the colours whose
\* first palette_add returns Err (the second is then skipped), png_fail
\* the colours whose second palette_add returns Err
quantize_images_item(path_str, opts, fs_before, failing, palette_len, raw_fail, png_fail) ==
    IF ~path_exists(fs_before, path_str)
    THEN Iteration(<<FailResult(0, <<"not_found", path_str>>)>>, fs_before, None)
    ELSE IF "open" \in failing \/ ~Decodable(path_str)
    THEN Iteration(<<FailResult(0, <<"read_error">>)>>, fs_before, None)
    ELSE LET original_size == metadata_len(fs_before, path_str)
             band == Some(<<MinQuality(opts.quality), MaxQuality(opts.quality)>>)
             output_path == SuffixedPath(path_str, "_quantized")
             palette == PaletteLoop(palette_len, raw_fail, png_fail, original_size)
             result_size == EncodedLen([format |-> "png", palette |-> TRUE,
                                        optimized |-> FALSE])
             Fail(message) ==
                 Iteration(<<FailResult(original_size, message)>>, fs_before, band)
         IN  IF "set_quality" \in failing THEN Fail(<<"quality_error">>)
             ELSE IF "new_image" \in failing THEN Fail(<<"image_error">>)
             ELSE IF "quantize" \in failing THEN Fail(<<"quantize_error">>)
             ELSE IF "remapped" \in failing THEN Fail(<<"remap_error">>)
             ELSE IF "encode" \in failing
             THEN Iteration(Append(palette,
                              FailResult(original_size, <<"png_encode_error">>)),
                            fs_before, band)
             ELSE IF "write" \in failing
             THEN Iteration(Append(palette,
                              FailResult(original_size, <<"write_error">>)),
                            fs_before, band)
             ELSE Iteration(
                    Append(palette,
                      ProcessResult(TRUE, original_size, result_size, output_path,
                        <<"quantized", opts.quality, original_size, result_size>>)),
                    [fs_before EXCEPT !.written = @ \cup {output_path}], band)

\* the colours a quantizer result has in the model: 1..MaxPalette
MaxPalette == 2

SyncPaths == {PathA, PathB, PathGone, PathBad}

ResizeOptionsSet ==
    { ResizeOptions(Some(2), None, TRUE), ResizeOptions(Some(3), Some(2), FALSE) }

QuantOptionsSet == { QuantOptions(5), QuantOptions(50) }

ResizeFails == {{}, {"open"}, {"save"}}

OptimizeFails ==
    {{}, {"open"}, {"write_to"}, {"optimize"}, {"optimize_from_memory"}, {"write"}}

QuantizeFails ==
    {{}} \cup {{c} : c \in {"open", "set_quality", "new_image", "quantize",
                            "remapped", "encode", "write"}}

\* a command that has been called and has not started its loop
Command(name, path_list, opts) ==
    [name |-> name, paths |-> path_list, options |-> opts, pos |-> 1,
     results |-> <<>>, fs |-> InitFs, bands |-> <<>>, ret |-> None]

InitSync ==
    /\ BatchUnused
    /\ psi = None
    /\ dim = None
    /\ \E path_list \in SeqsUpTo(SyncPaths, MaxItems) :
         \/ \E o \in ResizeOptionsSet : cmd = Command("resize_images", path_list, o)
         \/ cmd = Command("optimize_images", path_list, None)
         \/ \E o \in QuantOptionsSet : cmd = Command("quantize_images", path_list, o)

\* the loop variable after an iteration
Iterated(it) ==
    [cmd EXCEPT !.pos = @ + 1,
                !.results = @ \o it.pushed,
                !.fs = it.fs,
                !.bands = @ \o it.band]

ResizeImagesItem ==
    /\ cmd.name = "resize_images"
    /\ cmd.pos <= Len(cmd.paths)
    /\ \E f \in ResizeFails :
         \E it \in {resize_images_item(cmd.paths[cmd.pos], cmd.options, cmd.fs, f)} :
             cmd' = Iterated(it)
    /\ UNCHANGED <<batchVars, psi, dim>>

OptimizeImagesItem ==
    /\ cmd.name = "optimize_images"
    /\ cmd.pos <= Len(cmd.paths)
    /\ \E f \in OptimizeFails :
         \E it \in {optimize_images_item(cmd.paths[cmd.pos], cmd.fs, f)} :
             cmd' = Iterated(it)
    /\ UNCHANGED <<batchVars, psi, dim>>

QuantizeImagesItem ==
    /\ cmd.name = "quantize_images"
    /\ cmd.pos <= Len(cmd.paths)
    /\ \E f \in QuantizeFails, palette_len \in 1..MaxPalette :
         \E raw_fail \in SUBSET (1..palette_len) :
           \E png_fail \in SUBSET ((1..palette_len) \ raw_fail) :
             \E it \in {quantize_images_item(cmd.paths[cmd.pos], cmd.options,
                            cmd.fs, f, palette_len, raw_fail, png_fail)} :
                 cmd' = Iterated(it)
    /\ UNCHANGED <<batchVars, psi, dim>>

\* lines 301, 387, 594: Ok(results), after the loop
SyncReturn ==
    /\ cmd.pos > Len(cmd.paths)
    /\ cmd.ret = None
    /\ cmd' = [cmd EXCEPT !.ret = Some(cmd.results)]
    /\ UNCHANGED <<batchVars, psi, dim>>

NextSync ==
    \/ ResizeImagesItem
    \/ OptimizeImagesItem
    \/ QuantizeImagesItem
    \/ SyncReturn

SpecSync == InitSync /\ [][NextSync]_vars

(***************************************************************************)
(* The quality band: one call of process_single_image and one call of      *)
(* quantize_images on one file, for every value of the u8 quality field    *)
(***************************************************************************)
U8Values == 0..255

InitBand ==
    /\ BatchUnused
    /\ dim = None
    /\ \E q \in U8Values :
         /\ psi \in [path : {PathA},
                     options : {ProcessOptions(FALSE, None, None, FALSE, qe, q,
                                    FALSE, None, fmt) :
                                  qe \in BOOLEAN, fmt \in {"png", "webp"}},
                     fs : {InitFs}, fails : {{}}, st : {None}]
         /\ cmd = Command("quantize_images", <<PathA>>, QuantOptions(q))

NextBand ==
    \/ CallProcessSingleImage
    \/ QuantizeImagesItem
    \/ SyncReturn

SpecBand == InitBand /\ [][NextBand]_vars

(***************************************************************************)
(* Properties                                                              *)
(***************************************************************************)
IsProgress(e) == e.event = "process-progress"

ProgressOf(events) == SelectSeq(events, IsProgress)

\* C1: the `completed` values of the progress events, in the order the sink
\* receives them, are strictly increasing.
C1_SinkStrictlyIncreasing ==
    LET P == ProgressOf(sink)
    IN  \A j, k \in 1..Len(P) : j < k => P[j].completed < P[k].completed

\* C2: the counter is incremented exactly once per item, every progress
\* event carries total = N and a distinct `completed` value, and a finished
\* batch of N items has emitted exactly N progress events whose `completed`
\* values are exactly 1..N.
C2_OneCountPerItem ==
    LET P == ProgressOf(emitted)
    IN  /\ completed = Cardinality({i \in Items : wpc[i] \in {"counted", "emitted"}})
        /\ Len(P) = Cardinality({i \in Items : wpc[i] = "emitted"})
        /\ \A j \in 1..Len(P) : P[j].total = Len(paths)
        /\ \A j, k \in 1..Len(P) : j # k => P[j].completed # P[k].completed
        /\ bgpc = "done" =>
             /\ Len(P) = Len(paths)
             /\ completed = Len(paths)
             /\ {P[j].completed : j \in 1..Len(P)} = 1..Len(paths)

C2_Witness ==
    /\ bgpc = "done"
    /\ Len(paths) = 2
    /\ paths[1] = paths[2]
    /\ result[1].success
    /\ ~result[2].success

\* C3: the terminal process-complete event is emitted once, as the last
\* emit of the batch and after the progress events of all N items; no
\* progress event follows it.
C3_CompleteOnceAndLast ==
    /\ \A k \in 1..Len(emitted) :
         emitted[k].event = "process-complete" =>
           /\ k = Len(emitted)
           /\ k = Len(paths) + 1
           /\ \A j \in 1..(k - 1) : IsProgress(emitted[j])
    /\ bgpc = "done" <=>
         (Len(emitted) > 0 /\ emitted[Len(emitted)].event = "process-complete")

C3_Witness ==
    /\ bgpc = "done"
    /\ Len(paths) = 2
    /\ Len(emitted) = 3

\* C4: under fair scheduling every dispatched batch ends with the terminal
\* event, whichever items fail and whichever sends fail.
C4_BatchCompletes ==
    (bgpc = "par") ~> (bgpc = "done" /\ Len(emitted) = Len(paths) + 1)

C4_Witness ==
    /\ bgpc = "done"
    /\ \E i \in Items : fails[i] # {} /\ ~result[i].success
    /\ Len(sink) < Len(paths)

\* the result of each batch path when it is processed alone
IsolatedResult ==
    [o \in BatchOptions |-> [p \in BatchPaths |->
        process_single_image(p, o, InitFs, {}).result]]

\* C5: in a finished batch whose existing files are all processable, exactly
\* the K items that are missing files have success = false, with the
\* file-not-found message for the file the event names, and every other
\* event carries the result its file gets when it is processed alone.
C5_FailureIsolation ==
    (bgpc = "done" /\ \A i \in Items : path_exists(InitFs, paths[i]) => fails[i] = {})
    =>
    LET P == ProgressOf(emitted)
        Missing == {i \in Items : ~path_exists(InitFs, paths[i])}
    IN  /\ Cardinality({j \in 1..Len(P) : ~P[j].result[1].success})
             = Cardinality(Missing)
        /\ \A j \in 1..Len(P) :
             LET p == P[j].current_file[1]
                 r == P[j].result[1]
             IN  IF path_exists(InitFs, p)
                 THEN r.success /\ r = IsolatedResult[options][p]
                 ELSE r = FailResult(0, <<"not_found", p>>)

C5_Witness ==
    /\ bgpc = "done"
    /\ paths = <<PathGone, PathA>>
    /\ result[2].success
    /\ ~result[1].success
    /\ emitted[1].current_file = Some(PathA)

\* C6: the return of process_images is enabled as soon as the thread is
\* spawned, whatever the background thread has done, and the value returned
\* is the empty list.
C6_ReturnsEmptyAtOnce ==
    /\ mainpc = "spawned" => ENABLED ProcessImagesReturn
    /\ mainpc = "returned" => ret = Some(<<>>)

C6_Witness ==
    /\ mainpc = "returned"
    /\ Len(paths) = 2
    /\ emitted = <<>>
    /\ \A i \in Items : wpc[i] = "idle"

Last(q) == q[Len(q)]

\* C7: process_single_image returns one result; a failed call (missing or
\* undecodable file, or an external call returning Err) is the last call
\* made and gives success = false, an empty output_path and result_size 0;
\* success = true comes with a non-empty output_path and only from a
\* successful final write.
C7_TotalFailClosed ==
    psi.st # None =>
    LET st == psi.st[1]
        r  == st.result
    IN  /\ st.returned
        /\ Len(st.ran) > 0
        /\ ~r.success => r.output_path = EmptyString /\ r.result_size = 0
        /\ r.success <=> (Last(st.ran) = "write" /\ "write" \notin psi.fails)
        /\ r.success => r.output_path # EmptyString /\ r.output_path \in st.fs.written
        /\ \A k \in 1..Len(st.ran) :
             \/ st.ran[k] \in psi.fails
             \/ st.ran[k] = "open" /\ ~Decodable(psi.path)
             \/ st.ran[k] = "exists" /\ ~path_exists(psi.fs, psi.path)
             => ~r.success /\ k = Len(st.ran)

C7_Witness ==
    /\ psi.st # None
    /\ psi.fails = {"remapped"}
    /\ psi.options.optimize_enabled
    /\ Last(psi.st[1].ran) = "remapped"
    /\ ~psi.st[1].result.success

\* C8: for a missing input the result is a failure with original_size = 0
\* and nothing else is done: no directory is created, nothing is decoded
\* and nothing is written; for an existing input every result carries the
\* byte length of the source file as original_size.
C8_MissingFileNoEffect ==
    psi.st # None =>
    LET st == psi.st[1]
        r  == st.result
    IN  IF path_exists(psi.fs, psi.path)
        THEN r.original_size = FileLen(psi.path)
        ELSE /\ ~r.success
             /\ r.original_size = 0
             /\ st.fs = psi.fs
             /\ st.ran = <<"exists">>

C8_Witness ==
    /\ psi.st # None
    /\ psi.path = PathGone
    /\ psi.options.output_dir = Some("out")
    /\ ~dir_exists(psi.st[1].fs, "out")
    /\ psi.st[1].result.original_size = 0

\* floor(num/den + 1/2): num/den rounded half away from zero
RoundHalfAway(num, den) == (2 * num + den) \div (2 * den)

\* r is an integer nearest to num/den
Nearest(r, num, den) ==
    LET diff == r * den - num
    IN  2 * (IF diff < 0 THEN -diff ELSE diff) <= den

\* C9 as stated: the policy table with every scaled axis equal to the exact
\* scaled value rounded half away from zero.
C9_ExactRounding ==
    dim.out # None =>
    LET ow == dim.orig_w
        oh == dim.orig_h
        new == dim.out[1]
    IN  IF dim.target_w # None /\ dim.target_h # None /\ ~dim.maintain_aspect
        THEN new = <<dim.target_w[1], dim.target_h[1]>>
        ELSE IF dim.target_w # None /\ dim.target_h # None
        THEN LET w == dim.target_w[1]
                 h == dim.target_h[1]
             IN  IF w * oh <= h * ow
                 THEN new = <<RoundHalfAway(ow * w, ow), RoundHalfAway(oh * w, ow)>>
                 ELSE new = <<RoundHalfAway(ow * h, oh), RoundHalfAway(oh * h, oh)>>
        ELSE IF dim.target_w # None
        THEN new = <<dim.target_w[1], RoundHalfAway(oh * dim.target_w[1], ow)>>
        ELSE IF dim.target_h # None
        THEN new = <<RoundHalfAway(ow * dim.target_h[1], oh), dim.target_h[1]>>
        ELSE new = <<ow, oh>>

\* C9 amended: the policy table with every scaled axis an integer nearest
\* to the exact scaled value (an exact tie k + 1/2 may give k or k + 1).
C9_NearestRounding ==
    dim.out # None =>
    LET ow == dim.orig_w
        oh == dim.orig_h
        new == dim.out[1]
    IN  IF dim.target_w # None /\ dim.target_h # None /\ ~dim.maintain_aspect
        THEN new = <<dim.target_w[1], dim.target_h[1]>>
        ELSE IF dim.target_w # None /\ dim.target_h # None
        THEN LET w == dim.target_w[1]
                 h == dim.target_h[1]
             IN  IF w * oh <= h * ow
                 THEN new[1] = w /\ Nearest(new[2], oh * w, ow)
                 ELSE Nearest(new[1], ow * h, oh) /\ new[2] = h
        ELSE IF dim.target_w # None
        THEN new[1] = dim.target_w[1] /\ Nearest(new[2], oh * dim.target_w[1], ow)
        ELSE IF dim.target_h # None
        THEN Nearest(new[1], ow * dim.target_h[1], oh) /\ new[2] = dim.target_h[1]
        ELSE new = <<ow, oh>>

C9_Witness ==
    /\ dim.orig_w = 22
    /\ dim.orig_h = 11
    /\ dim.target_w = Some(15)
    /\ dim.target_h = None
    /\ dim.out = Some(<<15, 7>>)

\* C10: for positive original dimensions and positive targets both
\* dimensions of the result are at least 1.
C10_PositiveDimensions ==
    dim.out # None => dim.out[1][1] >= 1 /\ dim.out[1][2] >= 1

\* C11: calculate_new_dimensions applied to its own output, with the same
\* targets and the same lock flag, returns that output again.
C11_Idempotent ==
    dim.again # None => dim.again = dim.out

C11_Witness ==
    /\ dim.orig_w = 22
    /\ dim.orig_h = 11
    /\ dim.target_w = Some(15)
    /\ dim.target_h = Some(11)
    /\ dim.maintain_aspect
    /\ dim.out = Some(<<15, 7>>)
    /\ dim.again = Some(<<15, 7>>)

\* C15: with lock_aspect on and both targets set the result fits within the
\* requested bounds, and at least one axis equals its target.
C15_FitsWithinBounds ==
    (dim.out # None /\ dim.maintain_aspect
       /\ dim.target_w # None /\ dim.target_h # None)
    =>
    LET new == dim.out[1]
    IN  /\ new[1] <= dim.target_w[1]
        /\ new[2] <= dim.target_h[1]
        /\ new[1] = dim.target_w[1] \/ new[2] = dim.target_h[1]

C15_Witness ==
    /\ dim.maintain_aspect
    /\ dim.orig_w = 3
    /\ dim.orig_h = 22
    /\ dim.target_w = Some(4)
    /\ dim.target_h = Some(15)
    /\ dim.out = Some(<<2, 15>>)

\* the positions of a call in the list of calls made
Positions(ran, call) == {k \in 1..Len(ran) : ran[k] = call}

\* C13: for WebP output the encoder mode depends on quality alone (lossless
\* for quality >= 100, lossy at that quality below 100), whatever the
\* quantize, optimize and resize flags are; no quantizer call, PNG encoding
\* or oxipng call is made; and the resize runs, before the encoder, exactly
\* when resize_enabled is true and a width or a height is set.
C13_WebpModeByQuality ==
    (psi.st # None /\ psi.options.output_format = "webp")
    =>
    LET st      == psi.st[1]
        o       == psi.options
        decoded == /\ Positions(st.ran, "open") # {}
                   /\ Decodable(psi.path)
                   /\ "open" \notin psi.fails
        png     == {"set_quality", "new_image", "quantize", "remapped",
                    "encode", "write_to", "optimize_from_memory"}
    IN  /\ \A k \in 1..Len(st.ran) : st.ran[k] \notin png
        /\ ~decoded =>
              Positions(st.ran, "encode_lossless") \cup Positions(st.ran, "encode_lossy")
                \cup Positions(st.ran, "resize_exact") = {}
        /\ decoded =>
              /\ Cardinality(Positions(st.ran, "encode_lossless"))
                   = (IF o.quality >= 100 THEN 1 ELSE 0)
              /\ Cardinality(Positions(st.ran, "encode_lossy"))
                   = (IF o.quality >= 100 THEN 0 ELSE 1)
              /\ st.data.format = "webp"
              /\ st.data.lossless = (o.quality >= 100)
              /\ Last(st.process_steps)
                   = (IF o.quality >= 100 THEN <<"webp_lossless">>
                      ELSE <<"webp_quality", o.quality>>)
              /\ Cardinality(Positions(st.ran, "resize_exact"))
                   = (IF o.resize_enabled /\ (o.width # None \/ o.height # None)
                      THEN 1 ELSE 0)
              /\ \A r \in Positions(st.ran, "resize_exact") :
                   \A e \in Positions(st.ran, "encode_lossless")
                              \cup Positions(st.ran, "encode_lossy") : r < e

C13_Witness ==
    /\ psi.st # None
    /\ psi.options.output_format = "webp"
    /\ psi.options.quality = 255
    /\ psi.options.quantize_enabled
    /\ psi.options.optimize_enabled
    /\ psi.options.resize_enabled
    /\ psi.options.width = Some(2)
    /\ psi.st[1].result.success
    /\ psi.st[1].data.lossless
    /\ psi.st[1].ran = <<"exists", "metadata", "open", "resize_exact",
                          "encode_lossless", "write">>

\* the items of the batch whose process_single_image call wrote a file
Wrote == {i \in Items : wpc[i] # "idle" /\ result[i].success}

\* the directory an item's output goes to: options.output_dir when set,
\* the parent directory of the input otherwise
ResolvedDir(i) ==
    IF options.output_dir # None THEN options.output_dir[1] ELSE path_parent(paths[i])

\* C16: every item of a batch writes only <resolved output directory>/
\* <input stem>_processed.<png|webp>; two items write the same file only if
\* they have the same stem and the same resolved output directory, and items
\* with distinct stems never write the same path.
C16_WritesDisjointByStem ==
    /\ \A i \in Wrote :
         /\ result[i].output_path[1] = ResolvedDir(i)
         /\ result[i].output_path[2] = file_stem(paths[i]) \o "_processed"
         /\ result[i].output_path[3] = options.output_format
         /\ result[i].output_path[3] \in {"png", "webp"}
    /\ fs.written = {result[i].output_path : i \in Wrote}
    /\ fs.files = InitFs.files
    /\ \A i, j \in Wrote :
         /\ result[i].output_path = result[j].output_path
              => /\ file_stem(paths[i]) = file_stem(paths[j])
                 /\ ResolvedDir(i) = ResolvedDir(j)
         /\ file_stem(paths[i]) # file_stem(paths[j])
              => result[i].output_path # result[j].output_path

C16_Witness ==
    /\ paths = <<PathA, PathB>>
    /\ options.output_dir = Some("out")
    /\ Wrote = {1, 2}
    /\ fs.written = {<<"out", "a_processed", "png">>, <<"out", "b_processed", "png">>}

\* max(quality - 10, 0), in unbounded integers
BandLow(quality) == IF quality > 10 THEN quality - 10 ELSE 0

\* C12: the band passed to set_quality by process_single_image and by
\* quantize_images is [max(quality - 10, 0), quality] for every u8 quality,
\* and process_single_image calls the quantizer only for PNG output with
\* quantize_enabled (and then always, once the image is decoded).
C12_QualityBand ==
    /\ psi.st # None =>
         LET st == psi.st[1]
             o  == psi.options
             quantizing == o.output_format = "png" /\ o.quantize_enabled
         IN  /\ Positions(st.ran, "set_quality") # {} => quantizing
             /\ Positions(st.ran, "set_quality") = {} <=> st.band = <<>>
             /\ (quantizing /\ "open" \notin psi.fails)
                  => Cardinality(Positions(st.ran, "set_quality")) = 1
             /\ st.band # <<>> => st.band = <<BandLow(o.quality), o.quality>>
    /\ \A k \in 1..Len(cmd.bands) :
         cmd.bands[k] = <<BandLow(cmd.options.quality), cmd.options.quality>>
    /\ cmd.pos > 1 /\ Len(cmd.results) > 0 /\ cmd.results[1].original_size > 0
         => Len(cmd.bands) = 1

C12_Witness ==
    /\ psi.st # None
    /\ psi.options.quality = 5
    /\ psi.st[1].band = <<0, 5>>
    /\ cmd.bands = <<<<0, 5>>>>
    /\ cmd.ret # None

\* C14: a synchronous batch command has pushed exactly one result for every
\* path it has gone through, whatever failed, the k-th result being that of
\* the k-th path, and returns one result per input path.
C14_OneResultPerInput ==
    /\ Len(cmd.results) = cmd.pos - 1
    /\ \A k \in 1..Len(cmd.results) :
         k <= Len(cmd.paths) =>
           LET p == cmd.paths[k]
               r == cmd.results[k]
           IN  /\ r.success => r.output_path[1] = path_parent(p)
               /\ ~path_exists(InitFs, p) => r = FailResult(0, <<"not_found", p>>)
               /\ path_exists(InitFs, p) /\ ~Decodable(p) => ~r.success
    /\ cmd.ret # None => Len(cmd.ret[1]) = Len(cmd.paths)

====
